---- MODULE Spec2Model ----
(***************************************************************************)
(* A model of segment-tree.py: the array-backed sum segment tree           *)
(* (SegmentNode, SegmentTree.__init__/build/query/merge/update and the     *)
(* stubbed update_interval), driven the way __main__ drives it: every      *)
(* query and update is entered at the root node tree[0].                   *)
(***************************************************************************)
EXTENDS Integers, Sequences, FiniteSets, TLC

\* ------------------------------------------------------------------ bounds
\* Longest input list that is tried.
MaxN == 3
\* Number of update() calls made on one tree.
MaxUpdates == 2
\* Depth at which the interpreter stops a runaway recursion (RecursionError);
\* the code's own recursions stay far below it.
MaxDepth == 8

\* Element values and update differences that are tried.
Values == {-1, 3}
Differences == {-1}

\* All input lists of length 0..MaxN over Values.
DataSets == UNION {[1..n -> Values] : n \in 0..MaxN}

\* ------------------------------------------------------------- SegmentNode
\* self.null_value = 0
NullValue == 0

\* An empty slot of self.tree ([None]*size). A record shaped like a node with an
\* empty interval and index -1, so that "is None" is a plain comparison.
None == [value |-> 0, start |-> 0, end |-> -1, index |-> -1]

\* SegmentNode.__init__ with the index stored one too far.
SegmentNode_offByOne(value, start, end, index) ==
    [value |-> value, start |-> start, end |-> end, index |-> index + 1]

\* SegmentNode.__init__(value, start, end, index)
SegmentNode(value, start, end, index) ==
    [value |-> value, start |-> start, end |-> end, index |-> index]

\* ------------------------------------------------------------ SegmentTree
RECURSIVE Pow2(_)
\* math.pow(2, k) for a natural k
Pow2(k) == IF k <= 0 THEN 1 ELSE 2 * Pow2(k - 1)

RECURSIVE CeilLog2From(_, _)
CeilLog2From(n, k) == IF Pow2(k) >= n THEN k ELSE CeilLog2From(n, k + 1)

\* math.ceil(math.log(n, 2)) for n >= 1: the least k with 2^k >= n
CeilLog2(n) == CeilLog2From(n, 0)

\* math.log(n, 2) raising only for negative n.
LogDomainError_zeroAllowed(n) == n < 0

\* math.log(n, 2) raises ValueError (math domain error) for n <= 0
LogDomainError(n) == n <= 0

\* The allocation without the factor 2.
TreeSize_half(n) == Pow2(CeilLog2(n))

\* 2*int(math.pow(2, math.ceil(math.log(len(data), 2))))
TreeSize(n) == 2 * Pow2(CeilLog2(n))

\* self.tree = [None]*2*int(math.pow(2, math.ceil(math.log(len(data), 2))))
\* err is the exception raised, "none" when the statement completes.
Allocate(d) ==
    IF LogDomainError(Len(d))
    THEN [tree |-> << >>, err |-> "ValueError"]
    ELSE [tree |-> [p \in 0..(TreeSize(Len(d)) - 1) |-> None], err |-> "none"]

\* int((start+end)/2): true division, then truncation toward zero
Midpoint(start, end) ==
    IF start + end >= 0 THEN (start + end) \div 2 ELSE -((-(start + end)) \div 2)

\* current_index*2+1 and node.index*2+1
LeftChild(i) == i * 2 + 1

\* current_index*2+2 and node.index*2+2
RightChild(i) == i * 2 + 2

\* merge() subtracting instead of adding.
merge_minus(left, right) == left - right

\* merge(left, right) on two query results (numbers): left + right
merge(left, right) == left + right

\* merge(left_node, right_node) on two nodes, as build() calls it:
\* SegmentNode.__add__ gives left.value + right_node, which int cannot add, so
\* SegmentNode.__radd__ of the right node gives right.value + left.value.
mergeNodes(left_node, right_node) == right_node.value + left_node.value

\* self.tree[index] = node: IndexError outside the list
Store(t, index, node) ==
    IF index \in DOMAIN t
    THEN [tree |-> [t EXCEPT ![index] = node], err |-> "none", node |-> node]
    ELSE [tree |-> t, err |-> "IndexError", node |-> None]

\* self.tree[index]: IndexError outside the list
Load(t, index) ==
    IF index \in DOMAIN t
    THEN [node |-> t[index], err |-> "none"]
    ELSE [node |-> None, err |-> "IndexError"]

RECURSIVE build(_, _, _, _, _, _)
\* build(start, end, current_index) on tree t over data d, at recursion depth
\* `depth`. Returns the tree after the call, the exception raised ("none" when it
\* returns) and the node returned.
build(t, d, start, end, current_index, depth) ==
    IF depth > MaxDepth
    THEN [tree |-> t, err |-> "RecursionError", node |-> None]
    ELSE IF start = end
    THEN IF (start + 1) \in DOMAIN d
         THEN Store(t, current_index, SegmentNode(d[start + 1], start, end, current_index))
         ELSE [tree |-> t, err |-> "IndexError", node |-> None]
    ELSE LET midpoint == Midpoint(start, end)
             l == build(t, d, start, midpoint, LeftChild(current_index), depth + 1)
         IN  IF l.err # "none" THEN l
             ELSE LET r == build(l.tree, d, midpoint + 1, end,
                                 RightChild(current_index), depth + 1)
                  IN  IF r.err # "none" THEN r
                      ELSE Store(r.tree, current_index,
                                 SegmentNode(mergeNodes(l.node, r.node),
                                             start, end, current_index))

\* The first branch of query() with the comparison on the end dropped.
FullOverlap_startOnly(node, start, end) == start <= node.start

\* start <= node.start and end >= node.end
FullOverlap(node, start, end) == start <= node.start /\ end >= node.end

\* node.end < start or node.start > end
NoOverlap(node, start, end) == node.end < start \/ node.start > end

RECURSIVE query(_, _, _, _, _)
\* query(node, start, end), node being the object in slot p of tree t. Returns
\* the value returned and the exception raised ("none" when it returns).
query(t, p, start, end, depth) ==
    LET node == t[p] IN
    IF depth > MaxDepth THEN [val |-> 0, err |-> "RecursionError"]
    ELSE IF node = None THEN [val |-> 0, err |-> "AttributeError"]
    ELSE IF FullOverlap(node, start, end) THEN [val |-> node.value, err |-> "none"]
    ELSE IF NoOverlap(node, start, end) THEN [val |-> NullValue, err |-> "none"]
    ELSE LET lc == Load(t, LeftChild(node.index)) IN
         IF lc.err # "none" THEN [val |-> 0, err |-> lc.err]
         ELSE LET l == query(t, LeftChild(node.index), start, end, depth + 1) IN
              IF l.err # "none" THEN l
              ELSE LET rc == Load(t, RightChild(node.index)) IN
                   IF rc.err # "none" THEN [val |-> 0, err |-> rc.err]
                   ELSE LET r == query(t, RightChild(node.index), start, end, depth + 1) IN
                        IF r.err # "none" THEN r
                        ELSE [val |-> merge(l.val, r.val), err |-> "none"]

\* The guard of update() with the upper comparison made inclusive.
OutsideNode_endInclusive(node, data_index) ==
    data_index < node.start \/ data_index >= node.end

\* The guard of update() never taken.
OutsideNode_never(node, data_index) == FALSE

\* data_index < node.start or data_index > node.end
OutsideNode(node, data_index) == data_index < node.start \/ data_index > node.end

\* The difference subtracted instead of added.
AddDifference_minus(value, difference) == value - difference

\* node.value + difference
AddDifference(value, difference) == value + difference

\* Every node taken for a leaf, so that update() never descends.
IsLeaf_always(node) == TRUE

\* node.start == node.end
IsLeaf(node) == node.start = node.end

RECURSIVE update(_, _, _, _, _)
\* update(node, data_index, difference), node being the object in slot p of tree
\* t. Returns the tree after the call, the exception raised ("none" when it
\* returns) and what is returned: "None" from the bare return, "node" otherwise.
update(t, p, data_index, difference, depth) ==
    LET node == t[p] IN
    IF depth > MaxDepth THEN [tree |-> t, err |-> "RecursionError", ret |-> "None"]
    ELSE IF node = None THEN [tree |-> t, err |-> "AttributeError", ret |-> "None"]
    ELSE IF OutsideNode(node, data_index) THEN [tree |-> t, err |-> "none", ret |-> "None"]
    ELSE LET t1 == [t EXCEPT ![p].value = AddDifference(@, difference)] IN
         IF IsLeaf(node) THEN [tree |-> t1, err |-> "none", ret |-> "node"]
         ELSE LET lc == Load(t1, LeftChild(node.index)) IN
              IF lc.err # "none" THEN [tree |-> t1, err |-> lc.err, ret |-> "None"]
              ELSE LET l == update(t1, LeftChild(node.index), data_index, difference, depth + 1) IN
                   IF l.err # "none" THEN l
                   ELSE LET rc == Load(l.tree, RightChild(node.index)) IN
                        IF rc.err # "none" THEN [tree |-> l.tree, err |-> rc.err, ret |-> "None"]
                        ELSE LET r == update(l.tree, RightChild(node.index), data_index,
                                             difference, depth + 1) IN
                             IF r.err # "none" THEN r
                             ELSE [tree |-> r.tree, err |-> "none", ret |-> "node"]

\* The rewrites a caller may hand to update_interval, and what each does to a value.
Rewrites == {"inc", "neg"}
Apply(f, v) == IF f = "inc" THEN v + 1 ELSE -v

\* ------------------------------------------------------------------- state
VARIABLES
    pc,     \* "unbuilt" before SegmentTree(data), "built" after it returned,
            \* "failed" after it raised
    data,   \* self.data
    tree,   \* self.tree, slots 0..size-1; << >> while not allocated
    delta,  \* history: per data index, the sum of the differences update() was given
    nupd,   \* history: number of update() calls made
    op      \* the last call: its kind, arguments, and outcome

vars == <<pc, data, tree, delta, nupd, op>>

NoOp == [kind |-> "none", a |-> 0, b |-> 0, f |-> "", val |-> 0, err |-> "none", ret |-> "None"]

Init ==
    /\ pc = "unbuilt"
    /\ data = << >>
    /\ tree = << >>
    /\ delta = << >>
    /\ nupd = 0
    /\ op = NoOp

\* tree = SegmentTree(d)
Construct(d) ==
    /\ pc = "unbuilt"
    /\ LET alloc == Allocate(d)
           b == IF alloc.err # "none"
                THEN [tree |-> alloc.tree, err |-> alloc.err, node |-> None]
                ELSE build(alloc.tree, d, 0, Len(d) - 1, 0, 1)
       IN  /\ tree' = b.tree
           /\ pc' = IF b.err = "none" THEN "built" ELSE "failed"
           /\ op' = [NoOp EXCEPT !.kind = "init", !.err = b.err,
                                 !.ret = IF b.err = "none" THEN "tree" ELSE "None"]
    /\ data' = d
    /\ delta' = [i \in 1..Len(d) |-> 0]
    /\ nupd' = 0

\* tree.query(tree.tree[0], lo, hi)
QueryOp(lo, hi) ==
    /\ pc = "built"
    /\ LET r == query(tree, 0, lo, hi, 1)
       IN  op' = [NoOp EXCEPT !.kind = "query", !.a = lo, !.b = hi, !.val = r.val,
                              !.err = r.err,
                              !.ret = IF r.err = "none" THEN "value" ELSE "None"]
    /\ UNCHANGED <<pc, data, tree, delta, nupd>>

\* tree.update(tree.tree[0], i, d)
UpdateOp(i, d) ==
    /\ pc = "built"
    /\ nupd < MaxUpdates
    /\ LET r == update(tree, 0, i, d, 1)
       IN  /\ tree' = r.tree
           /\ op' = [NoOp EXCEPT !.kind = "update", !.a = i, !.b = d, !.err = r.err,
                                 !.ret = r.ret]
    /\ delta' = IF i \in 0..(Len(data) - 1) THEN [delta EXCEPT ![i + 1] = @ + d] ELSE delta
    /\ nupd' = nupd + 1
    /\ UNCHANGED <<pc, data>>

\* tree.update_interval(tree.tree[0], lo, hi, f): the body is `pass`.
\* op.val records what query(root, lo, lo) returned before the call.
UpdateIntervalOp(lo, hi, f) ==
    /\ pc = "built"
    /\ op' = [NoOp EXCEPT !.kind = "update_interval", !.a = lo, !.b = hi, !.f = f,
                          !.val = query(tree, 0, lo, lo, 1).val]
    /\ UNCHANGED <<pc, data, tree, delta, nupd>>

\* Arguments tried: every index of the data, and one below and one above.
Args == -1..Len(data)

Next ==
    \/ \E d \in DataSets : Construct(d)
    \/ \E lo \in Args, hi \in Args : QueryOp(lo, hi)
    \/ \E i \in Args, d \in Differences : UpdateOp(i, d)
    \/ \E i \in Args, f \in Rewrites : UpdateIntervalOp(i, i, f)

Spec == Init /\ [][Next]_vars

\* ------------------------------------------------- vocabulary of the claims
N == Len(data)
ValidIndex(i) == 0 <= i /\ i <= N - 1
ValidRange(lo, hi) == 0 <= lo /\ lo <= hi /\ hi <= N - 1
Max2(x, y) == IF x >= y THEN x ELSE y
Min2(x, y) == IF x <= y THEN x ELSE y

RECURSIVE SumRange(_, _, _)
\* The linear scan: s[lo] + ... + s[hi] over 0-based indices, 0 when lo > hi.
SumRange(s, lo, hi) == IF lo > hi THEN 0 ELSE s[lo + 1] + SumRange(s, lo + 1, hi)

\* The original elements of [lo,hi] plus every difference given for an index in it.
Expected(lo, hi) == SumRange(data, lo, hi) + SumRange(delta, lo, hi)

\* query(root, lo, hi) on the current tree.
Q(lo, hi) == query(tree, 0, lo, hi, 1)

Contains(node, i) == node.start <= i /\ i <= node.end
Populated(t) == {p \in DOMAIN t : t[p] # None}

RECURSIVE BuildSlots(_, _, _)
\* The slots the build recursion over [start,end] rooted at slot p assigns.
BuildSlots(start, end, p) ==
    IF start >= end THEN {p}
    ELSE {p} \cup BuildSlots(start, (start + end) \div 2, 2 * p + 1)
             \cup BuildSlots((start + end) \div 2 + 1, end, 2 * p + 2)

\* ------------------------------------------------------------------ claims

\* C1: on the freshly built tree (no update made yet), query(root, lo, hi) for
\* every 0 <= lo <= hi <= n-1 returns exactly the linear-scan sum of
\* data[lo..hi]; in particular query(root, 0, n-1) is the sum of the whole list.
C1_QueryIsLinearScan ==
    (pc = "built" /\ nupd = 0) =>
        /\ \A lo \in 0..(N - 1), hi \in 0..(N - 1) :
              lo <= hi => Q(lo, hi) = [val |-> SumRange(data, lo, hi), err |-> "none"]
        /\ Q(0, N - 1).val = SumRange(data, 0, N - 1)
        /\ (op.kind = "query" /\ ValidRange(op.a, op.b)) =>
              (op.err = "none" /\ op.val = SumRange(data, op.a, op.b))

\* A query over [1,2] of a three-element list with distinct sums was answered.
C1_Witness ==
    /\ pc = "built" /\ nupd = 0 /\ N = 3
    /\ op.kind = "query" /\ op.a = 1 /\ op.b = 2
    /\ op.val = data[2] + data[3]
    /\ data[1] # data[2]

C2_Inv ==
    pc = "built" =>
        \A lo \in 0..(N - 1), hi \in 0..(N - 1) :
            lo <= hi => Q(lo, hi) = [val |-> Expected(lo, hi), err |-> "none"]

C2_Frame ==
    (pc = "built" /\ op'.kind = "update") =>
        \A lo \in 0..(N - 1), hi \in 0..(N - 1) :
            (lo <= hi /\ ~(lo <= op'.a /\ op'.a <= hi)) =>
                query(tree', 0, lo, hi, 1) = query(tree, 0, lo, hi, 1)

\* C2: after any sequence of update(root, i, d) with 0 <= i <= n-1, every
\* query(root, lo, hi) with 0 <= lo <= hi <= n-1 equals the sum over [lo,hi] of
\* the original elements plus every d whose i lies in [lo,hi]; and an update at
\* an index outside [lo,hi] leaves query(root, lo, hi) unchanged.
C2_UpdateConsistency == []C2_Inv /\ [][C2_Frame]_vars

\* Two updates at different indices of a three-element list were made.
C2_Witness ==
    /\ pc = "built" /\ N = 3 /\ nupd = 2 /\ op.kind = "update"
    /\ delta[2] # 0 /\ delta[3] # 0 /\ delta[1] = 0
    /\ Q(1, 2).val = data[2] + data[3] + delta[2] + delta[3]
    /\ Q(0, 0).val = data[1]

\* C3: in every reachable state of a built tree, every internal node's value is
\* the sum of the values of its children at 2i+1 and 2i+2.
C3_InternalIsSumOfChildren ==
    pc = "built" =>
        \A p \in DOMAIN tree :
            (tree[p] # None /\ tree[p].start # tree[p].end) =>
                /\ 2 * p + 2 \in DOMAIN tree
                /\ tree[2 * p + 1] # None
                /\ tree[2 * p + 2] # None
                /\ tree[p].value = tree[2 * p + 1].value + tree[2 * p + 2].value

\* An update reached the leaves of a two-level tree and the sums still agree.
C3_Witness ==
    /\ pc = "built" /\ N = 3 /\ op.kind = "update" /\ op.ret = "node" /\ op.a = 0
    /\ tree[0].value # SumRange(data, 0, 2)
    /\ tree[1].value = tree[3].value + tree[4].value
    /\ tree[3].value = data[1] + delta[1]

\* C4 as stated: a query whose bounds are invalid (lo > hi, or lo or hi outside
\* [0, n-1]) fails with an error (the RangeError) instead of returning a value.
C4_InvalidQueryFails ==
    (op.kind = "query" /\ ~ValidRange(op.a, op.b)) =>
        (op.err # "none" /\ op.ret = "None")

C4_Returns ==
    (op.kind = "query" /\ ~ValidRange(op.a, op.b)) =>
        /\ op.err = "none"
        /\ op.ret = "value"
        /\ op.val = Expected(Max2(op.a, 0), Min2(op.b, N - 1))

C4_Frame ==
    (op'.kind = "query" /\ ~ValidRange(op'.a, op'.b)) => tree' = tree

\* C4 as amended: a query whose bounds are invalid does not fail; it returns the
\* sum over the part of [lo,hi] that lies inside [0, n-1] (the null value 0
\* when that part is empty), and it leaves the tree unmodified.
C4_InvalidQueryReturnsClippedSum == []C4_Returns /\ [][C4_Frame]_vars

\* A query reaching past both ends of an updated list, and a reversed one.
C4_Witness ==
    /\ pc = "built" /\ N = 3 /\ nupd >= 1 /\ delta[2] # 0
    /\ op.kind = "query" /\ op.err = "none"
    /\ \/ (op.a = -1 /\ op.b = 3 /\ op.val = tree[0].value)
       \/ (op.a = 2 /\ op.b = 0 /\ op.val = 0)

\* C5 as stated: update(root, i, d) with i outside [0, n-1] fails with an
\* error (the IndexOutOfRangeError) raised at the call, rather than returning
\* normally.
C5_InvalidUpdateFails ==
    (op.kind = "update" /\ ~ValidIndex(op.a)) => op.err # "none"

C5_Returns ==
    (op.kind = "update" /\ ~ValidIndex(op.a)) => (op.err = "none" /\ op.ret = "None")

C5_Frame ==
    (pc = "built" /\ op'.kind = "update" /\ ~ValidIndex(op'.a)) => tree' = tree

\* C5 as amended: update(root, i, d) with i outside [0, n-1] does not fail; it
\* returns normally at the root (the bare return, None) and changes no node.
C5_InvalidUpdateIsSilentNoOp == []C5_Returns /\ [][C5_Frame]_vars

\* An update one past the end of a three-element list returned None.
C5_Witness ==
    /\ pc = "built" /\ N = 3 /\ op.kind = "update" /\ op.a = 3
    /\ op.ret = "None" /\ op.err = "none" /\ nupd = 1
    /\ tree[0].value = SumRange(data, 0, 2)

\* Arguments up to two below the first and two above the last data index.
WideArgs == (0 - 2)..(N + 1)

\* C6: for every data length n >= 1 the array has 2 * 2^ceil(log2 n) slots,
\* which holds every index build writes; every slot build does not write stays
\* None; and no build, query or update call, for any lo, hi or data index,
\* dereferences a None slot or indexes outside the array.
C6_ArrayIsLargeEnough ==
    /\ N >= 1 => (pc = "built" /\ op.err = "none")
    /\ pc = "built" =>
          /\ \E k \in 0..N :
                /\ Pow2(k) >= N
                /\ (k = 0 \/ Pow2(k - 1) < N)
                /\ DOMAIN tree = 0..(2 * Pow2(k) - 1)
          /\ BuildSlots(0, N - 1, 0) \subseteq DOMAIN tree
          /\ Populated(tree) = BuildSlots(0, N - 1, 0)
          /\ \A lo \in WideArgs, hi \in WideArgs : Q(lo, hi).err = "none"
          /\ \A i \in WideArgs, d \in Differences \cup {0, 2} :
                update(tree, 0, i, d, 1).err = "none"

\* A three-element list: slots 5..7 are unused, after an update and a query
\* that reaches past both ends.
C6_Witness ==
    /\ pc = "built" /\ N = 3 /\ nupd >= 1
    /\ DOMAIN tree = 0..7
    /\ tree[5] = None /\ tree[6] = None /\ tree[7] = None
    /\ op.kind = "query" /\ op.a = -1 /\ op.b = 3 /\ op.err = "none"

\* C7: after the functional update of the single point [i,i] with rewrite f
\* (update_interval), query(root, i, i) equals f applied to the old value of
\* element i, and every ancestor holds the sum of its children.
C7_FunctorUpdateApplied ==
    (op.kind = "update_interval" /\ op.a = op.b /\ ValidIndex(op.a)) =>
        /\ Q(op.a, op.a).val = Apply(op.f, op.val)
        /\ C3_InternalIsSumOfChildren

\* C8: constructing a tree from an empty list fails with the invalid-input
\* error (the ValueError "math domain error" that math.log raises for 0)
\* before any array is allocated or node built, and no tree is left to use.
C8_EmptyDataFails ==
    /\ (op.kind = "init" /\ N = 0) =>
          (pc = "failed" /\ op.err = "ValueError" /\ tree = << >>)
    /\ pc = "built" => N >= 1
    /\ pc = "failed" => op.kind = "init"

\* The constructor was called with the empty list.
C8_Witness == pc = "failed" /\ op.kind = "init" /\ data = << >> /\ op.ret = "None"

C9_Frame ==
    (pc = "built" /\ op'.kind = "update") =>
        /\ DOMAIN tree' = DOMAIN tree
        /\ \A p \in DOMAIN tree :
              tree'[p] = IF tree[p] # None /\ Contains(tree[p], op'.a)
                         THEN [tree[p] EXCEPT !.value = @ + op'.b]
                         ELSE tree[p]
        /\ ~ValidIndex(op'.a) => tree' = tree

\* C9: update(root, i, d) adds d exactly once to the value of exactly the nodes
\* whose interval contains i and leaves every other node unchanged; with i
\* outside [0, n-1] no node changes.
C9_UpdateTouchesContainingNodes == [][C9_Frame]_vars

\* An update of the last element of a three-element list: root and right leaf
\* changed, the left subtree did not.
C9_Witness ==
    /\ pc = "built" /\ N = 3 /\ nupd = 1 /\ op.kind = "update" /\ op.a = 2
    /\ tree[0].value = SumRange(data, 0, 2) + op.b
    /\ tree[2].value = data[3] + op.b
    /\ tree[1].value = data[1] + data[2]

C10_Shape ==
    pc = "built" =>
        /\ tree[0] # None /\ tree[0].start = 0 /\ tree[0].end = N - 1
        /\ \A p \in Populated(tree) :
              /\ tree[p].index = p
              /\ tree[p].start <= tree[p].end
              /\ tree[p].start < tree[p].end =>
                    LET mid == (tree[p].start + tree[p].end) \div 2 IN
                    /\ 2 * p + 2 \in DOMAIN tree
                    /\ tree[2 * p + 1] # None /\ tree[2 * p + 2] # None
                    /\ tree[2 * p + 1].start = tree[p].start
                    /\ tree[2 * p + 1].end = mid
                    /\ tree[2 * p + 2].start = mid + 1
                    /\ tree[2 * p + 2].end = tree[p].end

C10_Frame ==
    (pc = "built" /\ op'.kind \in {"query", "update"}) =>
        /\ DOMAIN tree' = DOMAIN tree
        /\ Populated(tree') = Populated(tree)
        /\ \A p \in DOMAIN tree :
              /\ tree'[p].start = tree[p].start
              /\ tree'[p].end = tree[p].end
              /\ tree'[p].index = tree[p].index

\* C10: after build the root is at slot 0 with interval [0, n-1]; every
\* populated slot p holds a node whose stored index is p; every internal node
\* [start,end] at p has its children at 2p+1 and 2p+2 covering [start,mid] and
\* [mid+1,end], mid = floor((start+end)/2); and neither query nor update changes
\* any node's start, end or index or the set of populated slots.
C10_ShapeIsFixed == []C10_Shape /\ [][C10_Frame]_vars

\* A three-element tree after an update and a query.
C10_Witness ==
    /\ pc = "built" /\ N = 3 /\ nupd = 2 /\ op.kind = "query"
    /\ tree[0].value # SumRange(data, 0, 2)
    /\ tree[1].start = 0 /\ tree[1].end = 1 /\ tree[2].start = 2 /\ tree[4].index = 4

====
